---- MODULE Spec2Model ----
(***************************************************************************)
(* Hyperparameter distributions of neuraxle/hyperparams/distributions.py:  *)
(* the objects (class + attribute dictionary) live in a heap, and the      *)
(* operations narrow_space_from_best_guess, was_narrowed_from, unnarrow,   *)
(* get_current_narrowing_value and rvs act on it.                          *)
(*                                                                         *)
(* Python floats are modelled by exact rationals [n, d]: every ratio and   *)
(* bound the model draws is a dyadic rational of small size, on which      *)
(* binary64 arithmetic is exact.                                           *)
(***************************************************************************)
EXTENDS Integers, Sequences, FiniteSets, TLC

VARIABLES heap, last, hist, calls

vars == <<heap, last, hist, calls>>

\* ---------------------------------------------------------------- bounds
\* Largest number of calls the client makes.
MaxCalls == 2
\* math.log2 is modelled exactly on 2^k, -MaxExp <= k <= MaxExp.
MaxExp == 5

\* ------------------------------------------------------- python numbers
Abs(x) == IF x < 0 THEN -x ELSE x

RECURSIVE Gcd(_, _)
Gcd(a, b) == IF b = 0 THEN a ELSE Gcd(b, a % b)

\* The float n/d, in lowest terms with a positive denominator.
Q(n, d) ==
    LET s == IF d < 0 THEN -1 ELSE 1
        k == Gcd(Abs(n), Abs(d))
    IN  [n |-> (s * n) \div k, d |-> (s * d) \div k]

Zero == Q(0, 1)
One == Q(1, 1)
Half == Q(1, 2)

QAdd(a, b) == Q(a.n * b.d + b.n * a.d, a.d * b.d)
QSub(a, b) == Q(a.n * b.d - b.n * a.d, a.d * b.d)
QMul(a, b) == Q(a.n * b.n, a.d * b.d)
QLe(a, b) == a.n * b.d <= b.n * a.d
QLt(a, b) == a.n * b.d < b.n * a.d

\* Python's None.
NoneVal == [n |-> 0, d |-> 0]

\* sys.float_info.epsilon = 2^-52: smaller than every positive rational the
\* model computes, so it is kept as a symbol.
EPS == [n |-> 1, d |-> 0]
EpsLog2 == 52

\* a <= b on floats, either of which may be EPS.
FLe(a, b) ==
    CASE a = EPS /\ b = EPS -> TRUE
      [] a # EPS /\ b = EPS -> QLe(a, Zero)
      [] a = EPS /\ b # EPS -> QLt(Zero, b)
      [] OTHER -> QLe(a, b)

\* max(a, b) of two floats (the first of two equal arguments).
FMax(a, b) == IF FLe(b, a) THEN a ELSE b

\* round(x): to the nearest integer, a tie going to the even one.
Round(x) ==
    LET f == x.n \div x.d
        twice == 2 * (x.n - f * x.d)
    IN  IF twice < x.d THEN Q(f, 1)
        ELSE IF twice > x.d THEN Q(f + 1, 1)
        ELSE IF f % 2 = 0 THEN Q(f, 1) ELSE Q(f + 1, 1)

RECURSIVE Pow2(_)
Pow2(k) == IF k = 0 THEN 1 ELSE 2 * Pow2(k - 1)

\* The float 2^k.
Pow2Q(k) == IF k >= 0 THEN Q(Pow2(k), 1) ELSE Q(1, Pow2(-k))

\* math.log2(x) is computed exactly by the model when x is a power of two.
Log2Exact(x) == x = EPS \/ \E k \in (-MaxExp)..MaxExp : Pow2Q(k) = x

Log2(x) ==
    IF x = EPS THEN Q(-EpsLog2, 1)
    ELSE Q(CHOOSE k \in (-MaxExp)..MaxExp : Pow2Q(k) = x, 1)

\* A python tuple, as against a number.
Tuple(items) == [tuple |-> items]
IsTuple(v) == "tuple" \in DOMAIN v

\* ------------------------------------------------------------- the heap
\* An object is its class and its __dict__; its address is its heap index.
hasattr(h, self, a) == a \in DOMAIN h[self].dict

getattr(h, self, a) == h[self].dict[a]

setattr(h, self, a, v) == [h EXCEPT ![self].dict = (a :> v) @@ @]

\* What a call hands back: the heap after it, the address returned, the
\* value returned, and the exception raised ("none" when it returned).
Return(h, ret) == [heap |-> h, ret |-> ret, exc |-> "none"]
Raise(h, e) == [heap |-> h, ret |-> 0, exc |-> e]

\* HyperparameterDistribution.__init__ after the subclass stored `params`:
\* first_id = id(self).
New(h, cls, params) ==
    LET self == Len(h) + 1
    IN  Return(Append(h, [cls |-> cls, dict |-> ("first_id" :> self) @@ params]), self)

\* copy.copy(obj): a new object of the same class with the same __dict__.
copy(h, obj) == Return(Append(h, h[obj]), Len(h) + 1)

FixedHyperparameter(h, value) == New(h, "FixedHyperparameter", [value |-> value])

Boolean(h) == New(h, "Boolean", <<>>)

Choice(h, choice_list) == New(h, "Choice", [choice_list |-> choice_list])

Quantized(h, hd) == New(h, "Quantized", [hd |-> hd, hds |-> NoneVal])

Uniform(h, min_included, max_included) ==
    New(h, "Uniform", [min_included |-> min_included, max_included |-> max_included])

RandInt(h, min_included, max_included) ==
    New(h, "RandInt", [min_included |-> min_included, max_included |-> max_included])

\* math.log2 raises ValueError on a non-positive argument.
LogUniform(h, min_included, max_included) ==
    IF (min_included # EPS /\ QLe(min_included, Zero)) \/ QLe(max_included, Zero)
    THEN Raise(h, "ValueError")
    ELSE IF ~(Log2Exact(min_included) /\ Log2Exact(max_included))
    THEN Raise(h, "unmodelled")
    ELSE New(h, "LogUniform", [log2_min_included |-> Log2(min_included),
                               log2_max_included |-> Log2(max_included)])

\* `self.mean = mean,` stores a one-element tuple.
Normal(h, mean, std, hard_clip_min, hard_clip_max) ==
    New(h, "Normal", [mean |-> Tuple(<<mean>>), std |-> std,
                      hard_clip_min |-> hard_clip_min, hard_clip_max |-> hard_clip_max])

LogNormal(h, log2_space_mean, log2_space_std, hard_clip_min, hard_clip_max) ==
    New(h, "LogNormal", [log2_space_mean |-> log2_space_mean,
                         log2_space_std |-> log2_space_std,
                         hard_clip_min |-> hard_clip_min, hard_clip_max |-> hard_clip_max])

\* ---------------------------------------------- HyperparameterDistribution
\* unnarrow that hands back the receiver whether or not it was narrowed.
unnarrow_returns_receiver(h, self) == Return(h, self)

\* unnarrow: self when nothing was recorded, else a copy of the original.
unnarrow(h, self) ==
    IF ~hasattr(h, self, "original_hp")
    THEN Return(h, self)
    ELSE copy(h, getattr(h, self, "original_hp"))

\* The lazy initialisation both trace accessors start with.
InitTrace(h, self) ==
    IF ~hasattr(h, self, "kept_space_ratio_trace")
    THEN setattr(h, self, "kept_space_ratio_trace", One)
    ELSE h

\* was_narrowed_from that records the receiver itself, not its un-narrowed form.
was_narrowed_from_records_receiver(h, self, kept_space_ratio, original_hp) ==
    LET h1 == InitTrace(h, self)
        h2 == setattr(h1, self, "kept_space_ratio_trace",
                      QMul(getattr(h1, self, "kept_space_ratio_trace"), kept_space_ratio))
    IN  Return(setattr(h2, self, "original_hp", original_hp), self)

was_narrowed_from(h, self, kept_space_ratio, original_hp) ==
    LET h1 == InitTrace(h, self)
        h2 == setattr(h1, self, "kept_space_ratio_trace",
                      QMul(getattr(h1, self, "kept_space_ratio_trace"), kept_space_ratio))
        u == unnarrow(h2, original_hp)
    IN  Return(setattr(u.heap, self, "original_hp", u.ret), self)

\* Returns the heap (self may have been initialised) and the trace value.
get_current_narrowing_value(h, self) ==
    LET h1 == InitTrace(h, self)
    IN  [heap |-> h1, val |-> getattr(h1, self, "kept_space_ratio_trace")]

\* FixedHyperparameter(best_guess).was_narrowed_from(kept_space_ratio, self)
CollapseToFixed(h, self, best_guess, kept_space_ratio) ==
    LET f == FixedHyperparameter(h, best_guess)
    IN  was_narrowed_from(f.heap, f.ret, kept_space_ratio, self)

\* The base method, used by FixedHyperparameter and Boolean.
Base_narrow_space_from_best_guess(h, self, best_guess, kept_space_ratio) ==
    CollapseToFixed(h, self, best_guess, kept_space_ratio)

\* Choice narrowing that compares the last ratio alone with the threshold.
Choice_narrow_last_ratio_only(h, self, best_guess, kept_space_ratio) ==
    LET n == Len(getattr(h, self, "choice_list"))
    IN  IF n = 0 \/ n = 1
        THEN CollapseToFixed(h, self, best_guess, kept_space_ratio)
        ELSE LET cur == get_current_narrowing_value(h, self)
             IN  IF QLe(kept_space_ratio, Q(1, n))
                 THEN CollapseToFixed(cur.heap, self, best_guess, kept_space_ratio)
                 ELSE LET c == copy(cur.heap, self)
                      IN  was_narrowed_from(c.heap, c.ret, kept_space_ratio, self)

Choice_narrow_space_from_best_guess(h, self, best_guess, kept_space_ratio) ==
    LET n == Len(getattr(h, self, "choice_list"))
    IN  IF n = 0 \/ n = 1
        THEN CollapseToFixed(h, self, best_guess, kept_space_ratio)
        ELSE LET cur == get_current_narrowing_value(h, self)
                 new_narrowing == QMul(cur.val, kept_space_ratio)
                 min_threshold_for_fixed == Q(1, n)
             IN  IF QLe(new_narrowing, min_threshold_for_fixed)
                 THEN CollapseToFixed(cur.heap, self, best_guess, kept_space_ratio)
                 ELSE LET c == copy(cur.heap, self)
                      IN  was_narrowed_from(c.heap, c.ret, kept_space_ratio, self)

\* old * kept_space_ratio + best_guess * lost_space_ratio
Interpolate(old, best_guess, kept_space_ratio) ==
    QAdd(QMul(old, kept_space_ratio), QMul(best_guess, QSub(One, kept_space_ratio)))

\* Uniform narrowing that moves the receiver's own bounds and returns it.
Uniform_narrow_in_place(h, self, best_guess, kept_space_ratio) ==
    LET new_min_included ==
            Interpolate(getattr(h, self, "min_included"), best_guess, kept_space_ratio)
        new_max_included ==
            Interpolate(getattr(h, self, "max_included"), best_guess, kept_space_ratio)
    IN  IF QLe(new_max_included, new_min_included) \/ kept_space_ratio = Zero
        THEN CollapseToFixed(h, self, best_guess, kept_space_ratio)
        ELSE LET h1 == setattr(h, self, "min_included", new_min_included)
                 h2 == setattr(h1, self, "max_included", new_max_included)
             IN  was_narrowed_from(h2, self, kept_space_ratio, self)

Uniform_narrow_space_from_best_guess(h, self, best_guess, kept_space_ratio) ==
    LET new_min_included ==
            Interpolate(getattr(h, self, "min_included"), best_guess, kept_space_ratio)
        new_max_included ==
            Interpolate(getattr(h, self, "max_included"), best_guess, kept_space_ratio)
    IN  IF QLe(new_max_included, new_min_included) \/ kept_space_ratio = Zero
        THEN CollapseToFixed(h, self, best_guess, kept_space_ratio)
        ELSE LET u == Uniform(h, new_min_included, new_max_included)
             IN  was_narrowed_from(u.heap, u.ret, kept_space_ratio, self)

\* RandInt narrowing that forgets to round the new bounds.
RandInt_narrow_without_round(h, self, best_guess, kept_space_ratio) ==
    LET new_min_included ==
            Interpolate(getattr(h, self, "min_included"), best_guess, kept_space_ratio)
        new_max_included ==
            Interpolate(getattr(h, self, "max_included"), best_guess, kept_space_ratio)
    IN  IF QLe(new_max_included, new_min_included) \/ kept_space_ratio = Zero
        THEN CollapseToFixed(h, self, best_guess, kept_space_ratio)
        ELSE LET u == RandInt(h, new_min_included, new_max_included)
             IN  was_narrowed_from(u.heap, u.ret, kept_space_ratio, self)

RandInt_narrow_space_from_best_guess(h, self, best_guess, kept_space_ratio) ==
    LET new_min_included ==
            Round(Interpolate(getattr(h, self, "min_included"), best_guess, kept_space_ratio))
        new_max_included ==
            Round(Interpolate(getattr(h, self, "max_included"), best_guess, kept_space_ratio))
    IN  IF QLe(new_max_included, new_min_included) \/ kept_space_ratio = Zero
        THEN CollapseToFixed(h, self, best_guess, kept_space_ratio)
        ELSE LET u == RandInt(h, new_min_included, new_max_included)
             IN  was_narrowed_from(u.heap, u.ret, kept_space_ratio, self)

LogUniform_narrow_space_from_best_guess(h, self, best_guess, kept_space_ratio) ==
    LET new_min_included ==
            FMax(Interpolate(getattr(h, self, "log2_min_included"),
                             best_guess, kept_space_ratio), EPS)
        new_max_included ==
            Interpolate(getattr(h, self, "log2_max_included"), best_guess, kept_space_ratio)
    IN  IF FLe(new_max_included, new_min_included) \/ kept_space_ratio = Zero
        THEN CollapseToFixed(h, self, best_guess, kept_space_ratio)
        ELSE LET u == LogUniform(h, new_min_included, new_max_included)
             IN  IF u.exc # "none" THEN u
                 ELSE was_narrowed_from(u.heap, u.ret, kept_space_ratio, self)

\* `self.mean * kept_space_ratio + best_guess * lost_space_ratio`: a tuple
\* times a float, or a tuple plus a float, raises TypeError.
Normal_narrow_space_from_best_guess(h, self, best_guess, kept_space_ratio) ==
    IF IsTuple(getattr(h, self, "mean"))
    THEN Raise(h, "TypeError")
    ELSE LET new_mean == Interpolate(getattr(h, self, "mean"), best_guess, kept_space_ratio)
             new_std == QMul(getattr(h, self, "std"), kept_space_ratio)
         IN  IF QLe(new_std, Zero)
             THEN CollapseToFixed(h, self, best_guess, kept_space_ratio)
             ELSE LET u == Normal(h, new_mean, new_std, getattr(h, self, "hard_clip_min"),
                                  getattr(h, self, "hard_clip_max"))
                  IN  was_narrowed_from(u.heap, u.ret, kept_space_ratio, self)

\* The narrowed LogNormal is built with the Normal constructor.
LogNormal_narrow_space_from_best_guess(h, self, best_guess, kept_space_ratio) ==
    LET new_mean ==
            Interpolate(getattr(h, self, "log2_space_mean"), best_guess, kept_space_ratio)
        new_std == QMul(getattr(h, self, "log2_space_std"), kept_space_ratio)
    IN  IF QLe(new_std, Zero)
        THEN CollapseToFixed(h, self, best_guess, kept_space_ratio)
        ELSE LET u == Normal(h, new_mean, new_std, getattr(h, self, "hard_clip_min"),
                             getattr(h, self, "hard_clip_max"))
             IN  was_narrowed_from(u.heap, u.ret, kept_space_ratio, self)

RECURSIVE narrow_space_from_best_guess(_, _, _, _)

\* Narrow the wrapped distribution, wrap the result again.
Quantized_narrow_space_from_best_guess(h, self, best_guess, kept_space_ratio) ==
    LET inner == narrow_space_from_best_guess(h, getattr(h, self, "hd"),
                                              best_guess, kept_space_ratio)
    IN  IF inner.exc # "none" THEN inner
        ELSE LET q == Quantized(inner.heap, inner.ret)
             IN  was_narrowed_from(q.heap, q.ret, kept_space_ratio, self)

\* Method dispatch on the receiver's class.
narrow_space_from_best_guess(h, self, best_guess, kept_space_ratio) ==
    CASE h[self].cls = "Choice" ->
            Choice_narrow_space_from_best_guess(h, self, best_guess, kept_space_ratio)
      [] h[self].cls = "Quantized" ->
            Quantized_narrow_space_from_best_guess(h, self, best_guess, kept_space_ratio)
      [] h[self].cls = "Uniform" ->
            Uniform_narrow_space_from_best_guess(h, self, best_guess, kept_space_ratio)
      [] h[self].cls = "RandInt" ->
            RandInt_narrow_space_from_best_guess(h, self, best_guess, kept_space_ratio)
      [] h[self].cls = "LogUniform" ->
            LogUniform_narrow_space_from_best_guess(h, self, best_guess, kept_space_ratio)
      [] h[self].cls = "Normal" ->
            Normal_narrow_space_from_best_guess(h, self, best_guess, kept_space_ratio)
      [] h[self].cls = "LogNormal" ->
            LogNormal_narrow_space_from_best_guess(h, self, best_guess, kept_space_ratio)
      [] OTHER ->
            Base_narrow_space_from_best_guess(h, self, best_guess, kept_space_ratio)

\* FixedHyperparameter.rvs
Fixed_rvs(h, self) == getattr(h, self, "value")

\* ------------------------------------------------------------ the client
\* The distributions the client constructs before it starts calling.
RootIds == 1..11

RootHeap(i) ==
    CASE i = 1 -> FixedHyperparameter(<<>>, Q(3, 1)).heap
      [] i = 2 -> Boolean(<<>>).heap
      [] i = 3 -> Choice(<<>>, <<>>).heap
      [] i = 4 -> Choice(<<>>, <<Q(5, 1)>>).heap
      [] i = 5 -> Choice(<<>>, <<Q(1, 1), Q(3, 1), Q(5, 1)>>).heap
      [] i = 6 -> Uniform(<<>>, Q(0, 1), Q(10, 1)).heap
      [] i = 7 -> RandInt(<<>>, Q(0, 1), Q(10, 1)).heap
      [] i = 8 -> LogUniform(<<>>, Q(2, 1), Q(16, 1)).heap
      [] i = 9 -> Normal(<<>>, Q(0, 1), Q(1, 1), NoneVal, NoneVal).heap
      [] i = 10 -> LogNormal(<<>>, Q(0, 1), Q(1, 1), Q(1, 4), Q(8, 1)).heap
      [] i = 11 -> Quantized(Uniform(<<>>, Q(0, 1), Q(10, 1)).heap, 1).heap

\* The best guesses and kept ratios the client passes.
Guesses == {Q(0, 1), Q(1, 1), Q(5, 1)}
Ratios == {Zero, Half, One}

\* The class and the parameters of an object: its __dict__ without the
\* identity token and the narrowing trace.
Bookkeeping == {"first_id", "kept_space_ratio_trace", "original_hp"}

ParamsOf(o) ==
    [cls |-> o.cls, params |-> [a \in DOMAIN o.dict \ Bookkeeping |-> o.dict[a]]]

\* History of an object: the product of the kept ratios of the narrow calls
\* that led to it, and the class and parameters its chain started from.
Virgin(o) == [applied |-> One, base |-> ParamsOf(o)]

NarrowedFrom(hs, src, r) == [applied |-> QMul(hs[src].applied, r), base |-> hs[src].base]

\* The history after narrow(self, g, r) took the heap from h to res.heap.
HistAfterNarrow(h, hs, self, r, res) ==
    [i \in 1..Len(res.heap) |->
        IF i <= Len(h) THEN hs[i]
        ELSE IF i = res.ret THEN NarrowedFrom(hs, self, r)
        ELSE IF "original_hp" \in DOMAIN res.heap[i].dict
        THEN NarrowedFrom(hs, getattr(h, self, "hd"), r)
        ELSE Virgin(res.heap[i])]

NoCall == [op |-> "new", self |-> 0, g |-> NoneVal, r |-> NoneVal,
           ret |-> 0, val |-> NoneVal, exc |-> "none"]

Init ==
    \E i \in RootIds :
        /\ heap = RootHeap(i)
        /\ hist = [j \in 1..Len(RootHeap(i)) |-> Virgin(RootHeap(i)[j])]
        /\ last = NoCall
        /\ calls = 0

\* The client makes one more call.
Called == calls < MaxCalls /\ calls' = calls + 1

\* d.narrow_space_from_best_guess(g, r) on any object of the heap.
Narrow(self, g, r) ==
    LET res == narrow_space_from_best_guess(heap, self, g, r)
    IN  /\ Called
        /\ res.exc # "unmodelled"
        /\ heap' = res.heap
        /\ hist' = HistAfterNarrow(heap, hist, self, r, res)
        /\ last' = [op |-> "narrow", self |-> self, g |-> g, r |-> r,
                    ret |-> res.ret, val |-> NoneVal, exc |-> res.exc]

\* d.unnarrow()
Unnarrow(self) ==
    LET res == unnarrow(heap, self)
    IN  /\ Called
        /\ heap' = res.heap
        /\ hist' = [i \in 1..Len(res.heap) |->
                        IF i <= Len(heap) THEN hist[i] ELSE Virgin(res.heap[i])]
        /\ last' = [op |-> "unnarrow", self |-> self, g |-> NoneVal, r |-> NoneVal,
                    ret |-> res.ret, val |-> NoneVal, exc |-> "none"]

\* d.get_current_narrowing_value()
GetCurrentNarrowingValue(self) ==
    LET res == get_current_narrowing_value(heap, self)
    IN  /\ Called
        /\ heap' = res.heap
        /\ hist' = hist
        /\ last' = [op |-> "get_current_narrowing_value", self |-> self, g |-> NoneVal,
                    r |-> NoneVal, ret |-> 0, val |-> res.val, exc |-> "none"]

\* FixedHyperparameter.rvs()
Rvs(self) ==
    /\ Called
    /\ heap[self].cls = "FixedHyperparameter"
    /\ last' = [op |-> "rvs", self |-> self, g |-> NoneVal, r |-> NoneVal,
                ret |-> 0, val |-> Fixed_rvs(heap, self), exc |-> "none"]
    /\ UNCHANGED <<heap, hist>>

Next ==
    \/ \E self \in 1..Len(heap), g \in Guesses, r \in Ratios : Narrow(self, g, r)
    \/ \E self \in 1..Len(heap) : Unnarrow(self)
    \/ \E self \in 1..Len(heap) : GetCurrentNarrowingValue(self)
    \/ \E self \in 1..Len(heap) : Rvs(self)

Spec == Init /\ [][Next]_vars

\* ================================================================ claims
Objs == 1..Len(heap)

Narrowed(o) == hasattr(heap, o, "original_hp")

IsFixed(o, v) == heap[o].cls = "FixedHyperparameter" /\ getattr(heap, o, "value") = v

NarrowReturned == last.op = "narrow" /\ last.exc = "none"

\* What d.unnarrow() would hand back in the current state.
Reverted(o) == LET u == unnarrow(heap, o) IN u.heap[u.ret]

\* The cumulative ratio d.get_current_narrowing_value() would report.
CurrentNarrowing(o) == get_current_narrowing_value(heap, o).val

\* C1: after any chain of narrow calls that started at a distribution d,
\* unnarrow on the result returns a distribution of d's class whose
\* parameters are d's pre-narrowing parameters; an unnarrow call that was
\* made returned such a distribution.
C1_RevertRecoversOriginal ==
    /\ \A o \in Objs : Narrowed(o) => ParamsOf(Reverted(o)) = hist[o].base
    /\ last.op = "unnarrow" => ParamsOf(heap[last.ret]) = hist[last.self].base

\* A second narrow in a row, whose result differs from the chain's start,
\* reverts to that start.
C1_Witness ==
    /\ NarrowReturned
    /\ Narrowed(last.self)
    /\ heap[last.ret].cls = "Uniform"
    /\ ParamsOf(heap[last.ret]) # hist[last.ret].base
    /\ ParamsOf(heap[last.self]) # hist[last.ret].base
    /\ ParamsOf(Reverted(last.ret)) = hist[last.ret].base

\* C2 (as claimed): every distribution's current narrowing ratio is the
\* product of the kept ratios of the narrow calls that led to it (1.0 when
\* it was never narrowed).
C2_TraceIsCumulative ==
    \A o \in Objs : CurrentNarrowing(o) = hist[o].applied

\* C3: narrow on a Uniform or RandInt with kept ratio in (0, 1] returns the
\* same class with both bounds interpolated towards the best guess (rounded
\* for RandInt) when the new maximum exceeds the new minimum, and
\* Fixed(best_guess) otherwise.
C3_BoundsInterpolated ==
    (/\ last.op = "narrow"
     /\ heap[last.self].cls \in {"Uniform", "RandInt"}
     /\ last.r # Zero)
    => LET cls == heap[last.self].cls
           lost == QSub(One, last.r)
           lin_min == QAdd(QMul(getattr(heap, last.self, "min_included"), last.r),
                           QMul(last.g, lost))
           lin_max == QAdd(QMul(getattr(heap, last.self, "max_included"), last.r),
                           QMul(last.g, lost))
           new_min == IF cls = "RandInt" THEN Round(lin_min) ELSE lin_min
           new_max == IF cls = "RandInt" THEN Round(lin_max) ELSE lin_max
       IN  /\ last.exc = "none"
           /\ IF QLt(new_min, new_max)
              THEN /\ heap[last.ret].cls = cls
                   /\ getattr(heap, last.ret, "min_included") = new_min
                   /\ getattr(heap, last.ret, "max_included") = new_max
              ELSE IsFixed(last.ret, last.g)

\* Uniform(0.0, 10.0).narrow(5.0, 0.5) is Uniform(2.5, 7.5).
C3_Witness ==
    /\ NarrowReturned
    /\ heap[last.self].cls = "Uniform"
    /\ getattr(heap, last.self, "min_included") = Q(0, 1)
    /\ getattr(heap, last.self, "max_included") = Q(10, 1)
    /\ last.g = Q(5, 1) /\ last.r = Half
    /\ heap[last.ret].cls = "Uniform"
    /\ getattr(heap, last.ret, "min_included") = Q(5, 2)
    /\ getattr(heap, last.ret, "max_included") = Q(15, 2)

\* C4 (as claimed): narrow with kept ratio 0.0 returns, for every class, a
\* Fixed holding the best guess, without raising.
C4_ZeroRatioCollapses ==
    (last.op = "narrow" /\ last.r = Zero)
    => (last.exc = "none" /\ IsFixed(last.ret, last.g))

\* C6: narrow on a Choice of n candidates returns Fixed(best_guess) exactly
\* when n <= 1 or the product of all kept ratios applied so far, this one
\* included, is at most 1/n; otherwise it returns another Choice object with
\* the same candidate list.
C6_ChoiceThreshold ==
    (last.op = "narrow" /\ heap[last.self].cls = "Choice")
    => LET n == Len(getattr(heap, last.self, "choice_list"))
           cumulative == QMul(hist[last.self].applied, last.r)
       IN  /\ last.exc = "none"
           /\ IF n <= 1 \/ QLe(cumulative, Q(1, n))
              THEN IsFixed(last.ret, last.g)
              ELSE /\ heap[last.ret].cls = "Choice"
                   /\ last.ret # last.self
                   /\ getattr(heap, last.ret, "choice_list")
                        = getattr(heap, last.self, "choice_list")

\* A Choice of three that kept 1/2 survives, and collapses when it keeps 1/2
\* once more: neither ratio alone is below 1/3.
C6_Witness ==
    /\ NarrowReturned
    /\ heap[last.self].cls = "Choice"
    /\ Len(getattr(heap, last.self, "choice_list")) = 3
    /\ hist[last.self].applied = Half
    /\ last.r = Half
    /\ IsFixed(last.ret, last.g)

\* C7 (as claimed): narrow on a Normal or LogNormal with mean m and std s
\* returns the same class with scalar mean m*r + g*(1-r), std s*r and the
\* clip bounds unchanged when s*r > 0, and Fixed(g) otherwise.
C7_MeanInterpolatedStdScaled ==
    (last.op = "narrow" /\ heap[last.self].cls \in {"Normal", "LogNormal"})
    => LET cls == heap[last.self].cls
           mean_attr == IF cls = "Normal" THEN "mean" ELSE "log2_space_mean"
           std_attr == IF cls = "Normal" THEN "std" ELSE "log2_space_std"
           m == getattr(heap, last.self, mean_attr)
           new_std == QMul(getattr(heap, last.self, std_attr), last.r)
       IN  /\ last.exc = "none"
           /\ IF QLt(Zero, new_std)
              THEN /\ heap[last.ret].cls = cls
                   /\ ~IsTuple(m)
                   /\ getattr(heap, last.ret, mean_attr)
                        = QAdd(QMul(m, last.r), QMul(last.g, QSub(One, last.r)))
                   /\ getattr(heap, last.ret, std_attr) = new_std
                   /\ getattr(heap, last.ret, "hard_clip_min")
                        = getattr(heap, last.self, "hard_clip_min")
                   /\ getattr(heap, last.ret, "hard_clip_max")
                        = getattr(heap, last.self, "hard_clip_max")
              ELSE IsFixed(last.ret, last.g)

\* C8 (as claimed): narrow on a Fixed returns a Fixed holding the receiver's
\* value, whatever the best guess.
C8_FixedNarrowKeepsValue ==
    (last.op = "narrow" /\ heap[last.self].cls = "FixedHyperparameter")
    => (last.exc = "none" /\ IsFixed(last.ret, getattr(heap, last.self, "value")))

\* C9 (as claimed): narrow on a LogUniform with kept ratio in (0, 1] returns
\* a LogUniform whose stored log2 bounds are the receiver's stored log2
\* bounds interpolated towards the best guess (the lower one floored at
\* epsilon), or Fixed(best_guess) when the new upper bound does not exceed
\* the new lower bound.
C9_LogBoundsInterpolated ==
    (last.op = "narrow" /\ heap[last.self].cls = "LogUniform" /\ last.r # Zero)
    => LET lost == QSub(One, last.r)
           new_lo == FMax(QAdd(QMul(getattr(heap, last.self, "log2_min_included"), last.r),
                               QMul(last.g, lost)), EPS)
           new_hi == QAdd(QMul(getattr(heap, last.self, "log2_max_included"), last.r),
                          QMul(last.g, lost))
       IN  /\ last.exc = "none"
           /\ IF FLe(new_hi, new_lo)
              THEN IsFixed(last.ret, last.g)
              ELSE /\ heap[last.ret].cls = "LogUniform"
                   /\ getattr(heap, last.ret, "log2_min_included") = new_lo
                   /\ getattr(heap, last.ret, "log2_max_included") = new_hi

\* C10 (as claimed): unnarrow returns an object that is neither the receiver
\* nor the original the receiver recorded.
C10_RevertReturnsDuplicate ==
    last.op = "unnarrow"
    => /\ last.ret # last.self
       /\ Narrowed(last.self) => last.ret # getattr(heap, last.self, "original_hp")

\* C11: no call changes the class or the parameters (value, candidate list,
\* bounds, mean and std, clip bounds, wrapped distribution) of an object that
\* existed before it, and a narrow call that returns hands back an object
\* created by that call, never the receiver or an earlier object.
C11_NarrowNeverMutates ==
    [][/\ Len(heap') >= Len(heap)
       /\ \A o \in 1..Len(heap) : ParamsOf(heap'[o]) = ParamsOf(heap[o])
       /\ (last'.op = "narrow" /\ last'.exc = "none")
            => (last'.ret # last'.self /\ last'.ret > Len(heap))]_vars

\* A never-narrowed Choice of three was narrowed and survived: the call wrote
\* the trace on the receiver, whose candidate list is as constructed, and
\* returned another Choice.
C11_Witness ==
    /\ NarrowReturned
    /\ heap[last.self].cls = "Choice"
    /\ ~Narrowed(last.self)
    /\ hasattr(heap, last.self, "kept_space_ratio_trace")
    /\ Len(getattr(heap, last.self, "choice_list")) = 3
    /\ ParamsOf(heap[last.self]) = hist[last.self].base
    /\ heap[last.ret].cls = "Choice"
    /\ last.ret # last.self

\* An object with no back-reference whose narrowing ratio is the default 1.0.
Pristine(obj) ==
    /\ "original_hp" \notin DOMAIN obj.dict
    /\ "kept_space_ratio_trace" \in DOMAIN obj.dict
         => obj.dict["kept_space_ratio_trace"] = One

\* C12: in every reachable state the object a narrowed distribution records
\* as its original has no original of its own, and what unnarrow returns, on
\* any object and in the unnarrow call just made, has no back-reference and
\* no narrowing history.
C12_BackReferenceDepthAtMostOne ==
    /\ \A o \in Objs : Narrowed(o) => ~Narrowed(getattr(heap, o, "original_hp"))
    /\ \A o \in Objs : Pristine(Reverted(o))
    /\ last.op = "unnarrow" => Pristine(heap[last.ret])

\* A Choice that was already narrowed was narrowed again and survived: the
\* copy dropped the back-reference it inherited for a fresh copy of the
\* original, which has no back-reference, and reverts to a pristine object.
C12_Witness ==
    /\ NarrowReturned
    /\ heap[last.self].cls = "Choice"
    /\ Narrowed(last.self)
    /\ heap[last.ret].cls = "Choice"
    /\ Narrowed(last.ret)
    /\ getattr(heap, last.ret, "original_hp") # getattr(heap, last.self, "original_hp")
    /\ ~Narrowed(getattr(heap, last.ret, "original_hp"))
    /\ CurrentNarrowing(last.ret) # One
    /\ Pristine(Reverted(last.ret))

\* ------------------------------------------- the repeated-narrowing loop
\* The client of the collapse property:
\*     while not isinstance(d, FixedHyperparameter):
\*         d = d.narrow_space_from_best_guess(g, r)
\* with g and r fixed and r < 1; last.ret is d, last.g and last.r are g and r.
CollapseGuesses == {Q(k, 1) : k \in 0..10}
CollapseRatios == {Zero, Q(1, 4), Half, Q(3, 4)}

CollapseRoots ==
    {RandInt(<<>>, Q(0, 1), Q(10, 1)).heap,
     RandInt(<<>>, Q(-8, 1), Q(24, 1)).heap,
     Normal(<<>>, Q(0, 1), Q(1, 1), NoneVal, NoneVal).heap}

CollapseInit ==
    \E h \in CollapseRoots, g \in CollapseGuesses, r \in CollapseRatios :
        /\ heap = h
        /\ hist = <<Virgin(h[1])>>
        /\ calls = 0
        /\ last = [op |-> "new", self |-> 0, g |-> g, r |-> r,
                   ret |-> 1, val |-> NoneVal, exc |-> "none"]

\* The values d has taken: the root and every narrowed object.
Chain == {1} \cup {o \in Objs : Narrowed(o)}

\* d has taken the class and parameters of an earlier turn: the loop, which
\* computes the next d from these alone, repeats from here for ever.
Repeats ==
    \E i, j \in Chain : i < j /\ ParamsOf(heap[i]) = ParamsOf(heap[j])

\* One turn of the loop; an exception ends it and leaves d as it was. The
\* loop is followed until d repeats.
ChainNarrow ==
    /\ last.exc = "none"
    /\ heap[last.ret].cls # "FixedHyperparameter"
    /\ ~Repeats
    /\ LET res == narrow_space_from_best_guess(heap, last.ret, last.g, last.r)
       IN  /\ heap' = res.heap
           /\ hist' = HistAfterNarrow(heap, hist, last.ret, last.r, res)
           /\ last' = [last EXCEPT !.op = "narrow", !.self = last.ret, !.exc = res.exc,
                                   !.ret = IF res.exc = "none" THEN res.ret ELSE last.ret]
    /\ calls' = calls + 1

SpecCollapse == CollapseInit /\ [][ChainNarrow]_vars

\* C5 (as claimed, for RandInt): narrowing the latest result again and again
\* with the same kept ratio < 1 towards the same best guess yields
\* Fixed(best_guess) after a bounded number of turns. The loop is
\* deterministic, so it does only if no call raises and d never takes again
\* the class and parameters of an earlier turn.
C5_RepeatedNarrowingCollapses ==
    heap[1].cls = "RandInt" => (last.exc = "none" /\ ~Repeats)

====
